---- MODULE Spec2Model ----
(***************************************************************************)
(* A model of blocklib.Blockchain (src/blocklib.py).                       *)
(*                                                                         *)
(* Python lists are objects with identity: self.chain and self.file are    *)
(* references, a block's 'file' entry is a reference to the list that was  *)
(* self.file when the block was created, and fromchain stores the caller's *)
(* list itself.  The model therefore keeps a heap of chain lists (chains)  *)
(* and a heap of record lists (files); a reference is a position in the    *)
(* heap, and a Blockchain object is a pair of references (ledgers).        *)
(*                                                                         *)
(* Python strings that the code inspects character by character (the       *)
(* decimal text of the proofs, hex digests) are sequences of one-character *)
(* strings.  hashlib.sha256 is library code: see sha256_hexdigest and hash.*)
(***************************************************************************)
EXTENDS Integers, Sequences, FiniteSets, TLC

VARIABLES
    chains,     \* heap of list objects holding blocks: chains[r] is the list with reference r
    files,      \* heap of list objects holding records
    ledgers,    \* the Blockchain objects: ledgers[l] = [chain |-> ref, file |-> ref]
    log,        \* history: log[l] = every record appended to ledger l's self.file, in order
    batch,      \* history: batch[l] = what happened to ledger l since its last seal
    last_call,  \* history: the call that produced this state, its arguments and result
    calls,      \* history: the number of calls made since construction
    pw_last,    \* proof_of_work as a pure function: the argument of the last call
    pw_ret,     \*   its result
    pw_prev,    \*   the argument and result of the call before it
    snapshot,   \* the dict a full_chain() call returned to the caller, None before any
    search,     \* a mine call in progress: its arguments and the candidate proof, or None
    pure        \* the last application of a static method: its arguments and results

vars == <<chains, files, ledgers, log, batch, last_call, calls, pw_last, pw_ret, pw_prev,
          snapshot, search, pure>>

(***************************************************************************)
(* Bounds of the model.                                                    *)
(***************************************************************************)
MaxChain == 3        \* mine is not called on a chain list of this length
MaxLog == 3          \* add_record is not called on a ledger that has taken this many records
MaxProof == 16       \* proof_of_work gives up (does not return) beyond this candidate
MaxLedgers == 2      \* number of Blockchain objects ever constructed
MaxCalls == 3        \* calls in a run that replaces chains
MaxTamperCalls == 3  \* calls in a run that overwrites blocks
MaxReadCalls == 4    \* calls in a run that also reads the ledgers
MaxMiningCalls == 2  \* calls in a run that follows the search of mine step by step
MaxOperand == 25     \* arguments of valid_proof when it is checked on its own
MaxTamperProof == 1  \* proofs written into a block by __setitem__
MaxLastProof == 40   \* arguments of proof_of_work when it is checked on its own

(***************************************************************************)
(* Values.                                                                 *)
(***************************************************************************)
\* an optional argument: <<>> when it is left out (None), <<v>> when v is passed
None == <<>>

\* `if x` / `x or y` on an optional string: None and the empty string are falsy
Truthy(opt, empty) == opt # None /\ opt[1] # empty

\* records passed to new_transaction by callers
Records == { <<"note", "a">>, <<"note", "b">> }

\* miner labels passed to mine
Miners == { "", "alice" }

\* the record mine appends for a miner
Credit(miner) == <<"This block has been proudly mined by", miner>>

Last(s) == s[Len(s)]

(***************************************************************************)
(* valid_proof and proof_of_work.                                          *)
(***************************************************************************)
DigitChars == <<"0", "1", "2", "3", "4", "5", "6", "7", "8", "9">>

HexChars == <<"0", "1", "2", "3", "4", "5", "6", "7", "8", "9", "a", "b", "c", "d", "e", "f">>

\* f'{n}' for a non-negative integer: its decimal text
RECURSIVE Str(_)
Str(n) == IF n < 10 THEN <<DigitChars[n + 1]>>
          ELSE Str(n \div 10) \o <<DigitChars[(n % 10) + 1]>>

\* the byte of a digit character
Ord(c) == 47 + (CHOOSE i \in 1..10 : DigitChars[i] = c)

\* n as lowercase hex text of the given width
RECURSIVE ToHex(_, _)
ToHex(n, width) == IF width = 0 THEN <<>>
                   ELSE ToHex(n \div 16, width - 1) \o <<HexChars[(n % 16) + 1]>>

RECURSIVE Compress(_, _)
Compress(h, bytes) == IF bytes = <<>> THEN h
                      ELSE Compress((h * h + h * Ord(Head(bytes)) + 1) % 11, Tail(bytes))

\* hashlib.sha256(bytes).hexdigest() on the text of two proofs.  SHA-256 itself is
\* library code; it is represented by a small digest of the same shape (a function
\* of the whole text to fixed-width lowercase hex) whose leading characters are
\* zero often enough for the search to end within MaxProof.
sha256_hexdigest(bytes) == ToHex(Compress(2, bytes) * 256 + Len(bytes), 6)

\* (variant: the text is f'{last_proof * proof}')
valid_proof_product(last_proof, proof) ==
    LET guess == Str(last_proof * proof)
        guess_hash == sha256_hexdigest(guess)
    IN  SubSeq(guess_hash, 1, 4) = <<"0", "0", "0", "0">>

valid_proof(last_proof, proof) ==
    LET guess == Str(last_proof) \o Str(proof)
        guess_hash == sha256_hexdigest(guess)
    IN  SubSeq(guess_hash, 1, 4) = <<"0", "0", "0", "0">>

\* the result of a search that did not end within MaxProof
NoProof == -1

RECURSIVE pow_loop(_, _)
pow_loop(last_proof, proof) ==
    IF valid_proof(last_proof, proof) THEN proof
    ELSE IF proof >= MaxProof THEN NoProof
    ELSE pow_loop(last_proof, proof + 1)

\* (variant: the search starts at 1)
proof_of_work_from1(last_proof) == pow_loop(last_proof, 1)

\* (variant: the value returned is one more than the candidate found)
proof_of_work_plus1(last_proof) ==
    IF pow_loop(last_proof, 0) = NoProof THEN NoProof ELSE pow_loop(last_proof, 0) + 1

\* proof_of_work(last_proof): candidates 0, 1, 2, ... until one is valid
proof_of_work(last_proof) == pow_loop(last_proof, 0)

(***************************************************************************)
(* The heap and the methods of Blockchain.  A method takes the heap H =    *)
(* [chains, files, ledgers, log] and returns the heap after the call       *)
(* together with the call's result: ret = [exc, val], exc the exception    *)
(* raised ("" when the call returns) and val the value returned.  The heap *)
(* carries the history log, written where the code appends to self.file.   *)
(***************************************************************************)
Heap == [chains |-> chains, files |-> files, ledgers |-> ledgers, log |-> log]

EmptyHeap == [chains |-> <<>>, files |-> <<>>, ledgers |-> <<>>, log |-> <<>>]

Returns(H, val) == ("ret" :> [exc |-> "", val |-> val]) @@ H

Raises(H, exc) == ("ret" :> [exc |-> exc, val |-> 0]) @@ H

\* self.chain and self.file as list contents
chain_of(H, self) == H.chains[H.ledgers[self].chain]

file_of(H, self) == H.files[H.ledgers[self].file]

\* block['file'] as list contents
records_of(H, block) == H.files[block.file]

\* a block is a dict; its entries in the order new_block inserts them
items(block) ==
    << <<"index", block.index>>, <<"timestamp", block.timestamp>>, <<"file", block.file>>,
       <<"proof", block.proof>>, <<"previous_hash", block.previous_hash>> >>

\* sorted(keys) for the keys of a block, by str comparison
SortedKeys == <<"file", "index", "previous_hash", "proof", "timestamp">>

KeyRank ==
    [key \in { SortedKeys[i] : i \in 1..Len(SortedKeys) } |->
        CHOOSE i \in 1..Len(SortedKeys) : SortedKeys[i] = key]

Rank(key) == KeyRank[key]

\* (variant: sort_keys=False, the entries stay in insertion order)
sort_keys_off(d) == d

\* sort_keys=True: the entries of a dict ordered by key (the keys of a dict are
\* distinct): the entry at position i is the one with i - 1 smaller keys
sort_keys(d) ==
    [i \in 1..Len(d) |->
        d[CHOOSE j \in 1..Len(d) :
              Cardinality({ k \in 1..Len(d) : Rank(d[k][1]) < Rank(d[j][1]) }) = i - 1]]

\* an entry of a dict as json.dumps writes it: the key and the value, the list under
\* 'file' written out as its content
dumps_entry(H, entry) ==
    <<entry[1], IF entry[1] = "file" THEN H.files[entry[2]] ELSE entry[2]>>

\* json.dumps(block, sort_keys=True) of a dict d given by its entries in insertion
\* order: the keys and values in the order of the sorted keys, the list under
\* 'file' written out as its content
json_dumps(H, d) ==
    [i \in 1..Len(d) |-> dumps_entry(H, sort_keys(d)[i])]

\* hashlib.sha256(block_string).hexdigest() of a dict d: a digest of the
\* serialization that is free of collisions, which is kept symbolic as the tagged
\* serialization itself
hash(H, d) == <<"sha256", json_dumps(H, d)>>

\* the previous_hash of the genesis block, the string '1'
Sentinel == <<"1">>

EmptyStr == <<>>

\* (variant: the first block, self.chain[0])
last_block_first(H, self) == chain_of(H, self)[1]

\* the property last_block: self.chain[-1]
last_block(H, self) == Last(chain_of(H, self))

\* (variant: self.file is not replaced by a new list, so the block keeps sharing
\* its records with the pending list)
new_block_shared(H, self, proof, previous_hash, t) ==
    LET c == H.ledgers[self].chain
        block == [index |-> Len(H.chains[c]) + 1,
                  timestamp |-> t,
                  file |-> H.ledgers[self].file,
                  proof |-> proof,
                  previous_hash |-> previous_hash[1]]
    IN  [chains |-> [H.chains EXCEPT ![c] = Append(@, block)],
         files |-> H.files,
         ledgers |-> H.ledgers,
         log |-> H.log,
         ret |-> [exc |-> "", val |-> block]]

\* (variant: index is len(self.chain), without the + 1)
new_block_index_len(H, self, proof, previous_hash, t) ==
    LET c == H.ledgers[self].chain
        block == [index |-> Len(H.chains[c]),
                  timestamp |-> t,
                  file |-> H.ledgers[self].file,
                  proof |-> proof,
                  previous_hash |-> previous_hash[1]]
    IN  [chains |-> [H.chains EXCEPT ![c] = Append(@, block)],
         files |-> Append(H.files, <<>>),
         ledgers |-> [H.ledgers EXCEPT ![self].file = Len(H.files) + 1],
         log |-> H.log,
         ret |-> [exc |-> "", val |-> block]]

\* new_block(proof, previous_hash) at time t; the block returned is the new last block
new_block(H, self, proof, previous_hash, t) ==
    LET c == H.ledgers[self].chain
        block == [index |-> Len(H.chains[c]) + 1,
                  timestamp |-> t,
                  file |-> H.ledgers[self].file,
                  proof |-> proof,
                  previous_hash |-> IF Truthy(previous_hash, EmptyStr)
                                    THEN previous_hash[1]
                                    ELSE hash(H, items(last_block(H, self)))]
    IN  Returns([H EXCEPT !.chains[c] = Append(@, block),
                          !.ledgers[self].file = Len(H.files) + 1,
                          !.files = Append(@, <<>>)],
                block)

\* (variant: the genesis block is created with proof 1)
__init___proof1(H, t) ==
    LET self == Len(H.ledgers) + 1
        H0 == [chains |-> Append(H.chains, <<>>),
               files |-> Append(H.files, <<>>),
               ledgers |-> Append(H.ledgers, [chain |-> Len(H.chains) + 1,
                                              file |-> Len(H.files) + 1]),
               log |-> Append(H.log, <<>>)]
    IN  new_block(H0, self, 1, <<Sentinel>>, t)

\* Blockchain(): the new object is the last of ledgers
__init__(H, t) ==
    LET self == Len(H.ledgers) + 1
        H0 == [chains |-> Append(H.chains, <<>>),
               files |-> Append(H.files, <<>>),
               ledgers |-> Append(H.ledgers, [chain |-> Len(H.chains) + 1,
                                              file |-> Len(H.files) + 1]),
               log |-> Append(H.log, <<>>)]
    IN  new_block(H0, self, 2, <<Sentinel>>, t)

\* (variant: the record is appended to the list held by the last block,
\* self.last_block['file'], when the chain has one)
new_transaction_last_block(H, self, values) ==
    LET f == IF chain_of(H, self) = <<>> THEN H.ledgers[self].file
             ELSE last_block(H, self).file
        H1 == [chains |-> H.chains,
               files |-> [H.files EXCEPT ![f] = Append(@, values)],
               ledgers |-> H.ledgers,
               log |-> [H.log EXCEPT ![self] = Append(@, values)]]
    IN  IF chain_of(H1, self) = <<>>
        THEN Raises(H1, "IndexError")
        ELSE Returns(H1, last_block(H1, self).index + 1)

\* new_transaction(values)
new_transaction(H, self, values) ==
    LET f == H.ledgers[self].file
        H1 == [H EXCEPT !.files[f] = Append(@, values),
                        !.log[self] = Append(@, values)]
    IN  IF chain_of(H1, self) = <<>>
        THEN Raises(H1, "IndexError")
        ELSE Returns(H1, last_block(H1, self).index + 1)

\* (variant: the walk checks the proofs only, not previous_hash)
RECURSIVE valid_chain_loop_proofs(_, _, _, _)
valid_chain_loop_proofs(H, chain, last, current_index) ==
    IF ~(current_index < Len(chain)) THEN TRUE
    ELSE LET block == chain[current_index + 1]
         IN  IF ~valid_proof(last.proof, block.proof) THEN FALSE
             ELSE valid_chain_loop_proofs(H, chain, block, current_index + 1)

\* the walk of valid_chain from position current_index (0-based) of a chain list
RECURSIVE valid_chain_loop(_, _, _, _)
valid_chain_loop(H, chain, last, current_index) ==
    IF ~(current_index < Len(chain)) THEN TRUE
    ELSE LET block == chain[current_index + 1]
         IN  IF block.previous_hash # hash(H, items(last)) THEN FALSE
             ELSE IF ~valid_proof(last.proof, block.proof) THEN FALSE
             ELSE valid_chain_loop(H, chain, block, current_index + 1)

\* valid_chain(); self.chain[0] raises on an empty chain
valid_chain(H, self) ==
    IF chain_of(H, self) = <<>> THEN Raises(H, "IndexError")
    ELSE Returns(H, valid_chain_loop(H, chain_of(H, self), chain_of(H, self)[1], 1))

\* (variant: the miner's record is appended before the block is created)
mine_credit_first(H, self, miner, t) ==
    LET last == last_block(H, self)
        proof == proof_of_work(last.proof)
        prev_hash == hash(H, items(last))
        H1 == IF Truthy(miner, "")
              THEN new_transaction(H, self, Credit(miner[1]))
              ELSE H
        H2 == new_block(H1, self, proof, <<prev_hash>>, t)
    IN  Returns(H2, <<TRUE, H2.ret.val>>)

\* mine(miner) at time t from the point where proof_of_work has returned proof:
\* the re-test of the proof, the new block, the miner's record
mine_seal(H, self, miner, t, proof) ==
    LET last == last_block(H, self)
    IN  IF valid_proof(last.proof, proof)
        THEN LET prev_hash == hash(H, items(last))
                 H1 == new_block(H, self, proof, <<prev_hash>>, t)
                 H2 == IF Truthy(miner, "")
                       THEN new_transaction(H1, self, Credit(miner[1]))
                       ELSE H1
             IN  Returns(H2, <<TRUE, H1.ret.val>>)
        ELSE Returns(H, <<FALSE, 0>>)

\* mine(miner) at time t, when the search for the proof returns
mine(H, self, miner, t) ==
    IF chain_of(H, self) = <<>> THEN Raises(H, "IndexError")
    ELSE mine_seal(H, self, miner, t, proof_of_work(last_block(H, self).proof))

\* (variant: the new object keeps its own chain)
fromchain_keep(H, other_chain, t) ==
    LET H1 == __init__(H, t)
    IN  [chains |-> H1.chains, files |-> H1.files, ledgers |-> H1.ledgers,
         log |-> H1.log, ret |-> [exc |-> "", val |-> Len(H1.ledgers)]]

\* fromchain(other_chain) at time t, other_chain a reference to a list of blocks;
\* the new object is the last of ledgers
fromchain(H, other_chain, t) ==
    LET H1 == __init__(H, t)
        new_blockchain == Len(H1.ledgers)
    IN  [chains |-> H1.chains,
         files |-> H1.files,
         ledgers |-> [H1.ledgers EXCEPT ![new_blockchain].chain = other_chain],
         log |-> H1.log,
         ret |-> [exc |-> "", val |-> new_blockchain]]

\* __len__()
__len__(H, self) == Len(chain_of(H, self))

\* full_chain(): the dict holds self.chain itself (the reference) and its length now
full_chain(H, self) ==
    Returns(H, [chain |-> H.ledgers[self].chain, length |-> __len__(H, self)])

\* __setitem__(key, value) for 0 <= key; value is a block
__setitem__(H, self, key, value) ==
    LET c == H.ledgers[self].chain
    IN  IF key < Len(H.chains[c])
        THEN Returns([chains |-> [H.chains EXCEPT ![c][key + 1] = value],
                      files |-> H.files, ledgers |-> H.ledgers, log |-> H.log], 0)
        ELSE Raises(H, "IndexError")

(***************************************************************************)
(* The state machine.  Init is the state after ledger = Blockchain().      *)
(***************************************************************************)
\* values returned by time()
Times == {1, 2}

MinerArgs == {None} \cup { <<m>> : m \in Miners }

\* the history of a ledger since its last seal: the pending records it started
\* with, the records added by callers since, the miner argument of the call that
\* sealed last, and the value the last add_record returned (None after any change
\* of the chain list)
NewBatch(start, supplied) ==
    [start |-> start, added |-> <<>>, supplied |-> supplied, predicted |-> None]

SetHeap(R) ==
    /\ chains' = R.chains
    /\ files' = R.files
    /\ ledgers' = R.ledgers
    /\ log' = R.log

\* no static method applied yet
NoCall == [op |-> "none"]

InitLedger ==
    \E t \in Times :
        LET R == __init__(EmptyHeap, t)
        IN  /\ chains = R.chains
            /\ files = R.files
            /\ ledgers = R.ledgers
            /\ log = R.log
            /\ batch = << NewBatch(<<>>, None) >>
            /\ last_call = [op |-> "__init__", self |-> 1, ret |-> R.ret]
            /\ calls = 0
            /\ pw_last = 2
            /\ pw_ret = NoProof
            /\ pw_prev = <<2, NoProof>>
            /\ snapshot = None
            /\ search = None

Init == InitLedger /\ pure = NoCall

\* ledger.new_transaction(values)
AddRecord(self, values) ==
    /\ Len(log[self]) < MaxLog
    /\ LET R == new_transaction(Heap, self, values)
       IN  /\ SetHeap(R)
           /\ batch' = [batch EXCEPT ![self].added = Append(@, values),
                                     ![self].predicted =
                                         IF R.ret.exc = "" THEN <<R.ret.val>> ELSE None]
           /\ last_call' = [op |-> "new_transaction", self |-> self, values |-> values,
                            ret |-> R.ret,
                            chain_before |-> chain_of(Heap, self),
                            file_before |-> file_of(Heap, self)]
    /\ calls' = calls + 1
    /\ UNCHANGED <<pw_last, pw_ret, pw_prev, snapshot, search, pure>>

\* ledger.mine(miner) at time t
Mine(self, miner, t) ==
    /\ Len(chain_of(Heap, self)) < MaxChain
    /\ chain_of(Heap, self) # <<>> => proof_of_work(last_block(Heap, self).proof) # NoProof
    /\ LET R == mine(Heap, self, miner, t)
           sealed == R.ret.exc = "" /\ R.ret.val[1]
       IN  /\ SetHeap(R)
           /\ batch' = [l \in DOMAIN batch |->
                          IF ~sealed THEN batch[l]
                          ELSE IF l = self THEN NewBatch(file_of(R, self), miner)
                          ELSE IF ledgers[l].chain = ledgers[self].chain
                               THEN [batch[l] EXCEPT !.predicted = None]
                          ELSE batch[l]]
           /\ last_call' = [op |-> "mine", self |-> self, miner |-> miner,
                            ret |-> R.ret,
                            chain_before |-> chain_of(Heap, self),
                            file_before |-> file_of(Heap, self),
                            batch_before |-> batch[self],
                            chains_before |-> chains]
    /\ calls' = calls + 1
    /\ UNCHANGED <<pw_last, pw_ret, pw_prev, snapshot, search, pure>>

Next ==
    \E self \in DOMAIN ledgers :
        \/ \E values \in Records : AddRecord(self, values)
        \/ \E miner \in MinerArgs, t \in Times : Mine(self, miner, t)

Spec == Init /\ [][Next]_vars

Reverse(s) == [i \in 1..Len(s) |-> s[Len(s) + 1 - i]]

\* the lists a caller can build from the chain lists it can read: the empty list, a
\* chain without its first block, a chain in reverse order
CallerChains ==
    {<<>>} \cup { SubSeq(chain_of(Heap, l), 2, Len(chain_of(Heap, l))) : l \in DOMAIN ledgers }
           \cup { Reverse(chain_of(Heap, l)) : l \in DOMAIN ledgers }

\* Blockchain.fromchain(other_chain) at time t, where other_chain is the chain list
\* of an existing ledger (a reference to it), or a list the caller built
FromChain(t) ==
    /\ Len(ledgers) < MaxLedgers
    /\ \/ \E l \in DOMAIN ledgers :
              LET R == fromchain(Heap, ledgers[l].chain, t)
              IN  /\ SetHeap(R)
                  /\ last_call' = [op |-> "fromchain", self |-> R.ret.val, ret |-> R.ret,
                                   other_chain |-> ledgers[l].chain,
                                   supplied |-> chains[ledgers[l].chain]]
       \/ \E built \in CallerChains :
              LET other_chain == Len(chains) + 1
                  H1 == [chains |-> Append(chains, built), files |-> files,
                         ledgers |-> ledgers, log |-> log]
                  R == fromchain(H1, other_chain, t)
              IN  /\ SetHeap(R)
                  /\ last_call' = [op |-> "fromchain", self |-> R.ret.val, ret |-> R.ret,
                                   other_chain |-> other_chain,
                                   supplied |-> built]
    /\ batch' = Append(batch, NewBatch(<<>>, None))
    /\ calls' = calls + 1
    /\ UNCHANGED <<pw_last, pw_ret, pw_prev, snapshot, search, pure>>

NextReplace ==
    /\ calls < MaxCalls
    /\ \/ Next
       \/ \E t \in Times : FromChain(t)

SpecReplace == Init /\ [][NextReplace]_vars

\* what a caller writes over a block: one of its entries with another value
Changes ==
    { <<"proof", p>> : p \in 0..MaxTamperProof }
        \cup { <<"previous_hash", h>> : h \in {Sentinel, <<"0">>} }
        \cup { <<"file", f>> : f \in {<<>>, << <<"note", "a">> >>} }

\* ledger[key] = value, where value is the block at key with one entry changed to a
\* different value (a changed 'file' is a new list)
SetItem(self, key, change) ==
    /\ key < Len(chain_of(Heap, self))
    /\ LET old == chain_of(Heap, self)[key + 1]
           H1 == [chains |-> chains,
                  files |-> IF change[1] = "file" THEN Append(files, change[2]) ELSE files,
                  ledgers |-> ledgers, log |-> log]
           value == IF change[1] = "proof" THEN [old EXCEPT !.proof = change[2]]
                    ELSE IF change[1] = "previous_hash"
                         THEN [old EXCEPT !.previous_hash = change[2]]
                    ELSE [old EXCEPT !.file = Len(H1.files)]
           R == __setitem__(H1, self, key, value)
       IN  /\ json_dumps(H1, items(value)) # json_dumps(Heap, items(old))
           /\ SetHeap(R)
           /\ last_call' = [op |-> "__setitem__", self |-> self, key |-> key,
                            entry |-> change[1], ret |-> R.ret,
                            chain_before |-> chain_of(Heap, self),
                            valid_before |-> valid_chain(Heap, self).ret.val]
    /\ batch' = [l \in DOMAIN batch |->
                   IF ledgers[l].chain = ledgers[self].chain
                   THEN [batch[l] EXCEPT !.predicted = None]
                   ELSE batch[l]]
    /\ calls' = calls + 1
    /\ UNCHANGED <<pw_last, pw_ret, pw_prev, snapshot, search, pure>>

NextTamper ==
    /\ calls < MaxTamperCalls
    /\ \/ Next
       \/ \E self \in DOMAIN ledgers, key \in 0..(MaxChain - 1), change \in Changes :
              SetItem(self, key, change)

SpecTamper == Init /\ [][NextTamper]_vars

\* snapshot = ledger.full_chain(): the caller keeps the returned dict; seen is the
\* content of its 'chain' entry when it was returned
FullChain(self) ==
    /\ LET R == full_chain(Heap, self)
       IN  /\ SetHeap(R)
           /\ snapshot' = << [self |-> self, dict |-> R.ret.val,
                              seen |-> chains[R.ret.val.chain]] >>
           /\ last_call' = [op |-> "full_chain", self |-> self, ret |-> R.ret,
                            chain_before |-> chain_of(Heap, self),
                            file_before |-> file_of(Heap, self)]
    /\ calls' = calls + 1
    /\ UNCHANGED <<batch, pw_last, pw_ret, pw_prev, search, pure>>

\* ledger.valid_chain()
ValidChain(self) ==
    /\ LET R == valid_chain(Heap, self)
       IN  /\ SetHeap(R)
           /\ last_call' = [op |-> "valid_chain", self |-> self, ret |-> R.ret,
                            chain_before |-> chain_of(Heap, self),
                            file_before |-> file_of(Heap, self)]
    /\ calls' = calls + 1
    /\ UNCHANGED <<batch, pw_last, pw_ret, pw_prev, snapshot, search, pure>>

NextRead ==
    /\ calls < MaxReadCalls
    /\ \/ Next
       \/ \E t \in Times : FromChain(t)
       \/ \E self \in DOMAIN ledgers : FullChain(self)
       \/ \E self \in DOMAIN ledgers : ValidChain(self)

SpecRead == Init /\ [][NextRead]_vars

\* (variant: proof += 2)
search_step_by2(s) == [s EXCEPT !.proof = @ + 2]

\* one turn of the loop of proof_of_work: proof += 1
search_step(s) == [s EXCEPT !.proof = @ + 1]

\* ledger.mine(miner) up to the start of the search: last_block is read and
\* proof_of_work(last_block['proof']) sets proof = 0
MineCall(self, miner) ==
    /\ search = None
    /\ Len(chain_of(Heap, self)) < MaxChain
    /\ chain_of(Heap, self) # <<>>
    /\ search' = << [self |-> self, miner |-> miner,
                     last_proof |-> last_block(Heap, self).proof, proof |-> 0,
                     chain_before |-> chain_of(Heap, self),
                     file_before |-> file_of(Heap, self)] >>
    /\ calls' = calls + 1
    /\ UNCHANGED <<chains, files, ledgers, log, batch, last_call,
                   pw_last, pw_ret, pw_prev, snapshot, pure>>

\* the loop of proof_of_work finds its candidate not valid and takes the next one
SearchStep ==
    /\ search # None
    /\ ~valid_proof(search[1].last_proof, search[1].proof)
    /\ search[1].proof < MaxProof
    /\ search' = << search_step(search[1]) >>
    /\ UNCHANGED <<chains, files, ledgers, log, batch, last_call, calls,
                   pw_last, pw_ret, pw_prev, snapshot, pure>>

\* the loop finds its candidate valid, proof_of_work returns it and mine goes on
\* to its end, at time t
MineReturn(t) ==
    /\ search # None
    /\ valid_proof(search[1].last_proof, search[1].proof)
    /\ \E self \in {search[1].self} :
       \E R \in {mine_seal(Heap, self, search[1].miner, t, search[1].proof)} :
           /\ SetHeap(R)
           /\ batch' = [l \in DOMAIN batch |->
                          IF R.ret.val[1] /\ l = self
                          THEN NewBatch(file_of(R, self), search[1].miner)
                          ELSE batch[l]]
           /\ last_call' = [op |-> "mine", self |-> self, miner |-> search[1].miner,
                            ret |-> R.ret,
                            chain_before |-> chain_of(Heap, self),
                            file_before |-> file_of(Heap, self),
                            batch_before |-> batch[self],
                            chains_before |-> chains]
    /\ search' = None
    /\ UNCHANGED <<calls, pw_last, pw_ret, pw_prev, snapshot, pure>>

NextMining ==
    \/ /\ search = None
       /\ calls < MaxMiningCalls
       /\ \E self \in DOMAIN ledgers :
              \/ \E values \in Records : AddRecord(self, values)
              \/ \E miner \in MinerArgs : MineCall(self, miner)
    \/ SearchStep
    \/ \E t \in Times : MineReturn(t)

\* a call that has started goes on running: the loop takes its next turn, and
\* returns when its candidate is valid
SpecMining ==
    Init /\ [][NextMining]_vars /\ WF_vars(SearchStep) /\ WF_vars(\E t \in Times : MineReturn(t))

\* proof_of_work(last_proof), as a function of its argument alone
ProofOfWork(last_proof) ==
    /\ proof_of_work(last_proof) # NoProof
    /\ pw_last' = last_proof
    /\ pw_ret' = proof_of_work(last_proof)
    /\ pw_prev' = <<pw_last, pw_ret>>
    /\ UNCHANGED <<chains, files, ledgers, log, batch, last_call, calls, snapshot, search, pure>>

NextPow == \E last_proof \in 0..MaxLastProof : ProofOfWork(last_proof)

SpecPow == Init /\ [][NextPow]_vars

\* the orders in which a caller can insert the five entries of a block into a dict
Orders == Permutations(1..5)

\* the entries of a block inserted in the order given
Inserted(block, order) == [i \in 1..5 |-> items(block)[order[i]]]

\* hash as a function of its argument alone: two dicts holding the entries of one
\* block (the genesis block, or one with the same values and a record in its file),
\* each built in an order of its own
InitHash ==
    /\ \E t \in Times, values \in Records :
           LET R == new_transaction(__init__(EmptyHeap, t), 1, values)
           IN  /\ chains = R.chains
               /\ files = R.files
               /\ ledgers = R.ledgers
               /\ log = R.log
               /\ batch = << NewBatch(<<>>, None) >>
               /\ last_call = [op |-> "new_transaction", self |-> 1, values |-> values,
                               ret |-> R.ret, chain_before |-> chain_of(R, 1),
                               file_before |-> <<>>]
    /\ calls = 1
    /\ pw_last = 2
    /\ pw_ret = NoProof
    /\ pw_prev = <<2, NoProof>>
    /\ snapshot = None
    /\ search = None
    /\ \E file \in DOMAIN files, order1 \in Orders, order2 \in Orders :
           LET block == [last_block(Heap, 1) EXCEPT !.file = file]
           IN  pure = [op |-> "dicts", d1 |-> Inserted(block, order1),
                       d2 |-> Inserted(block, order2)]

\* Blockchain.hash(d1), Blockchain.hash(d2), and Blockchain.hash(d1) a second time
Hash ==
    /\ pure.op = "dicts"
    /\ pure' = [op |-> "hash", d1 |-> pure.d1, d2 |-> pure.d2,
                h1 |-> hash(Heap, pure.d1), h2 |-> hash(Heap, pure.d2),
                h1_again |-> hash(Heap, pure.d1)]
    /\ UNCHANGED <<chains, files, ledgers, log, batch, last_call, calls,
                   pw_last, pw_ret, pw_prev, snapshot, search>>

NextHash == Hash

SpecHash == InitHash /\ [][NextHash]_vars

\* valid_proof as a function of its arguments alone: two pairs of arguments whose
\* decimal texts concatenate to the same string
InitConcat ==
    /\ InitLedger
    /\ \E a \in 0..MaxOperand, b \in 0..MaxOperand, c \in 0..MaxOperand, d \in 0..MaxOperand :
           /\ Str(a) \o Str(b) = Str(c) \o Str(d)
           /\ pure = [op |-> "pairs", a |-> a, b |-> b, c |-> c, d |-> d]

\* Blockchain.valid_proof(a, b) and Blockchain.valid_proof(c, d)
ValidProof ==
    /\ pure.op = "pairs"
    /\ pure' = [op |-> "valid_proof", a |-> pure.a, b |-> pure.b, c |-> pure.c, d |-> pure.d,
                ab |-> valid_proof(pure.a, pure.b), cd |-> valid_proof(pure.c, pure.d)]
    /\ UNCHANGED <<chains, files, ledgers, log, batch, last_call, calls,
                   pw_last, pw_ret, pw_prev, snapshot, search>>

NextConcat == ValidProof

SpecConcat == InitConcat /\ [][NextConcat]_vars

(***************************************************************************)
(* Readings of the state used by the properties.                           *)
(***************************************************************************)
\* the last call was a mine that returned (True, block)
Sealed == last_call.op = "mine" /\ last_call.ret.exc = "" /\ last_call.ret.val[1]

\* the block that mine returned
SealedBlock == last_call.ret.val[2]

\* the records of the blocks of a chain list, in chain order
RECURSIVE SealedRecords(_, _)
SealedRecords(H, chain) ==
    IF chain = <<>> THEN <<>>
    ELSE SealedRecords(H, SubSeq(chain, 1, Len(chain) - 1)) \o records_of(H, Last(chain))

\* the linkage of section 3 of the specification, pair by pair
Linked(H, chain) ==
    \A i \in 2..Len(chain) :
        /\ chain[i].previous_hash = hash(H, items(chain[i - 1]))
        /\ valid_proof(chain[i - 1].proof, chain[i].proof)

(***************************************************************************)
(* C1: in every state reached from a fresh ledger by add_record and mine   *)
(* (with or without a miner), valid_chain() returns True, and every block  *)
(* after the first carries the hash of its predecessor and a proof that is *)
(* valid after its predecessor's proof.                                    *)
(***************************************************************************)
C1_ChainAlwaysValid ==
    \A l \in DOMAIN ledgers :
        /\ valid_chain(Heap, l).ret = [exc |-> "", val |-> TRUE]
        /\ Linked(Heap, chain_of(Heap, l))

C1_Witness ==
    /\ Len(chain_of(Heap, 1)) = 3
    /\ records_of(Heap, chain_of(Heap, 1)[2]) # <<>>
    /\ records_of(Heap, chain_of(Heap, 1)[3]) # <<>>

(***************************************************************************)
(* C2: no record is sealed twice or dropped: the records of the blocks in  *)
(* chain order, followed by the pending records, are exactly the records   *)
(* appended so far (by add_record and as miner credits), in arrival order. *)
(***************************************************************************)
C2_NoRecordLostOrRepeated ==
    \A l \in DOMAIN ledgers :
        SealedRecords(Heap, chain_of(Heap, l)) \o file_of(Heap, l) = log[l]

C2_Witness ==
    /\ Len(chain_of(Heap, 1)) = 3
    /\ Len(log[1]) >= 4
    /\ file_of(Heap, 1) # <<>>
    /\ records_of(Heap, chain_of(Heap, 1)[2]) # <<>>

(***************************************************************************)
(* C3 as claimed: after add_record calls on a ledger whose pending list    *)
(* was empty, one mine (with or without a miner) returns a block whose     *)
(* records are the added records in order, and pending is empty after it. *)
(***************************************************************************)
C3_Claimed ==
    (Sealed /\ last_call.batch_before.start = <<>>) =>
        /\ records_of(Heap, SealedBlock) = last_call.batch_before.added
        /\ file_of(Heap, last_call.self) = <<>>

(***************************************************************************)
(* C3 as amended: the returned block's records are the added records in    *)
(* order; pending after the call is empty when no miner or an empty miner  *)
(* label was passed, and holds exactly the miner's credit record otherwise.*)
(***************************************************************************)
C3_SealsTheBatch ==
    (Sealed /\ last_call.batch_before.start = <<>>) =>
        /\ records_of(Heap, SealedBlock) = last_call.batch_before.added
        /\ file_of(Heap, last_call.self) =
               IF Truthy(last_call.miner, "") THEN <<Credit(last_call.miner[1])>> ELSE <<>>

C3_Witness ==
    /\ Sealed
    /\ last_call.batch_before.start = <<>>
    /\ last_call.miner = <<"alice">>
    /\ records_of(Heap, SealedBlock) = << <<"note", "b">>, <<"note", "a">> >>

(***************************************************************************)
(* C4 as claimed: on a ledger whose chain is valid, changing the records,  *)
(* the proof or the previous_hash of any one block (the genesis block and  *)
(* the last block included) makes valid_chain() return False.              *)
(***************************************************************************)
C4_Claimed ==
    (last_call.op = "__setitem__" /\ last_call.ret.exc = "" /\ last_call.valid_before) =>
        valid_chain(Heap, last_call.self).ret.val = FALSE

(***************************************************************************)
(* C4 as amended: on a ledger whose chain is valid, changing the records,  *)
(* the proof or the previous_hash of a block that is not the last block    *)
(* (the genesis block included), or the previous_hash of a last block that *)
(* is not the only block, makes valid_chain() return False.                *)
(***************************************************************************)
C4_TamperDetectedBeforeLast ==
    (last_call.op = "__setitem__" /\ last_call.ret.exc = "" /\ last_call.valid_before) =>
        LET n == Len(chain_of(Heap, last_call.self))
        IN  (\/ last_call.key + 1 < n
             \/ last_call.key > 0 /\ last_call.entry = "previous_hash")
                => valid_chain(Heap, last_call.self).ret.val = FALSE

C4_Witness ==
    /\ last_call.op = "__setitem__"
    /\ last_call.valid_before
    /\ last_call.key = 0
    /\ last_call.entry = "file"
    /\ Len(chain_of(Heap, last_call.self)) = 3

(***************************************************************************)
(* C5: in every state reached through construction, add_record, mine and   *)
(* replace_chain (with any chain supplied), every ledger's chain holds at  *)
(* least one block, and no call fails reading the last block.              *)
(***************************************************************************)
C5_Claimed ==
    /\ \A l \in DOMAIN ledgers : chain_of(Heap, l) # <<>>
    /\ last_call.ret.exc # "IndexError"

(***************************************************************************)
(* C6: right after construction the ledger has one block, with index 1,    *)
(* proof 2, previous_hash '1' and no records; pending is empty and         *)
(* valid_chain() returns True.                                             *)
(***************************************************************************)
C6_FreshLedger ==
    last_call.op = "__init__" =>
        LET self == last_call.self
            chain == chain_of(Heap, self)
        IN  /\ Len(chain) = 1
            /\ chain[1].index = 1
            /\ chain[1].proof = 2
            /\ chain[1].previous_hash = Sentinel
            /\ records_of(Heap, chain[1]) = <<>>
            /\ file_of(Heap, self) = <<>>
            /\ valid_chain(Heap, self).ret = [exc |-> "", val |-> TRUE]

C6_Witness == last_call.op = "__init__" /\ Len(ledgers) = 1

(***************************************************************************)
(* C7: chain[i].index = i+1 at every position i (counted from 0), and each *)
(* mine appends exactly one block, whose index is the chain length before  *)
(* the call plus 1.                                                        *)
(***************************************************************************)
C7_IndexIsPosition ==
    /\ \A l \in DOMAIN ledgers :
           \A i \in 1..Len(chain_of(Heap, l)) : chain_of(Heap, l)[i].index = i
    /\ Sealed =>
           /\ chain_of(Heap, last_call.self) = Append(last_call.chain_before, SealedBlock)
           /\ SealedBlock.index = Len(last_call.chain_before) + 1

C7_Witness == Sealed /\ Len(last_call.chain_before) = 2

(***************************************************************************)
(* C8: an add_record that returns appends its record at the end of         *)
(* pending, leaves the chain unchanged and returns last_block.index + 1;   *)
(* on any ledger, one returned by replace_chain included, the value it     *)
(* returned is the index of the block sealed by the next mine, when the    *)
(* chain was not changed in between.                                       *)
(***************************************************************************)
C8_Claimed ==
    /\ (last_call.op = "new_transaction" /\ last_call.ret.exc = "") =>
           /\ file_of(Heap, last_call.self) = Append(last_call.file_before, last_call.values)
           /\ chain_of(Heap, last_call.self) = last_call.chain_before
           /\ last_call.ret.val = last_block(Heap, last_call.self).index + 1
    /\ (Sealed /\ last_call.batch_before.predicted # None) =>
           SealedBlock.index = last_call.batch_before.predicted[1]

(***************************************************************************)
(* C9: whenever mine is called with a miner label supplied (any string,    *)
(* the empty string included), the block it seals does not hold the credit *)
(* record of that call, pending right after the call is exactly one credit *)
(* record naming the miner, and the block sealed by the next mine has that *)
(* credit record first, followed by the records added in between in order. *)
(***************************************************************************)
C9_Claimed ==
    /\ (Sealed /\ last_call.miner # None) =>
           /\ records_of(Heap, SealedBlock) = last_call.file_before
           /\ file_of(Heap, last_call.self) = <<Credit(last_call.miner[1])>>
    /\ (Sealed /\ last_call.batch_before.supplied # None) =>
           records_of(Heap, SealedBlock) =
               <<Credit(last_call.batch_before.supplied[1])>> \o last_call.batch_before.added

(***************************************************************************)
(* C10: when proof_of_work(last_proof) returns, its result p satisfies     *)
(* valid_proof(last_proof, p), no smaller non-negative integer does, and a *)
(* second call with the same last_proof returns the same value.            *)
(***************************************************************************)
C10_SmallestProof ==
    pw_ret # NoProof =>
        /\ valid_proof(pw_last, pw_ret)
        /\ \A q \in 0..(pw_ret - 1) : ~valid_proof(pw_last, q)
        /\ (pw_prev[1] = pw_last /\ pw_prev[2] # NoProof) => pw_prev[2] = pw_ret

C10_Witness == pw_ret >= 10 /\ pw_prev = <<pw_last, pw_ret>>

(***************************************************************************)
(* C11: replace_chain(other_chain) returns a ledger whose chain is exactly *)
(* other_chain (the list supplied, with its blocks and nothing else),      *)
(* whose pending is empty and whose full_chain().length is the length of   *)
(* other_chain; a supplied chain that breaks the hash or proof linkage is  *)
(* accepted, and valid_chain() on the result returns False.                *)
(***************************************************************************)
C11_ReplaceOverwrites ==
    last_call.op = "fromchain" =>
        LET self == last_call.ret.val
        IN  /\ last_call.ret.exc = ""
            /\ ledgers[self].chain = last_call.other_chain
            /\ chain_of(Heap, self) = last_call.supplied
            /\ file_of(Heap, self) = <<>>
            /\ full_chain(Heap, self).ret.val.length = Len(last_call.supplied)
            /\ ~Linked(Heap, last_call.supplied) =>
                   valid_chain(Heap, self).ret = [exc |-> "", val |-> FALSE]

C11_Witness ==
    /\ last_call.op = "fromchain"
    /\ Len(last_call.supplied) = 2
    /\ ~Linked(Heap, last_call.supplied)

(***************************************************************************)
(* C13 as claimed: the dict returned by full_chain() has a length equal to *)
(* the number of blocks of its chain, the call changes neither chain nor   *)
(* pending, and after a later mine on the ledger the chain held by the     *)
(* returned dict is what it was when returned and its length still counts  *)
(* that chain's blocks.                                                    *)
(***************************************************************************)
C13_Claimed ==
    /\ last_call.op = "full_chain" =>
           /\ last_call.ret.val.length = Len(chains[last_call.ret.val.chain])
           /\ chain_of(Heap, last_call.self) = last_call.chain_before
           /\ file_of(Heap, last_call.self) = last_call.file_before
    /\ (snapshot # None /\ Sealed /\ last_call.self = snapshot[1].self) =>
           /\ chains[snapshot[1].dict.chain] = snapshot[1].seen
           /\ snapshot[1].dict.length = Len(chains[snapshot[1].dict.chain])

(***************************************************************************)
(* C14: hash called twice on the same block returns the same digest, and   *)
(* two blocks holding the same index, timestamp, records, proof and        *)
(* previous_hash have the same digest whatever the order in which their    *)
(* entries were inserted.                                                  *)
(***************************************************************************)
C14_HashIgnoresFieldOrder ==
    pure.op = "hash" =>
        /\ pure.h1_again = pure.h1
        /\ pure.h2 = pure.h1

C14_Witness ==
    /\ pure.op = "hash"
    /\ pure.d1[1][1] = "timestamp"
    /\ pure.d2[1][1] = "proof"
    /\ pure.d1[5] = <<"file", 2>>
    /\ files[2] # <<>>
    /\ pure.h2 = pure.h1

(***************************************************************************)
(* C15: no add_record or mine call moves or changes a block that is in a   *)
(* chain: after the call every block that was in a ledger's chain is at    *)
(* the same position with the same index, timestamp, proof, previous_hash  *)
(* and records; in particular an add_record after a mine leaves the        *)
(* records of the sealed block as they were.                               *)
(***************************************************************************)
C15_AppendOnly ==
    [][\A l \in DOMAIN ledgers :
           \A i \in 1..Len(chains[ledgers[l].chain]) :
               /\ i <= Len(chains'[ledgers'[l].chain])
               /\ chains'[ledgers'[l].chain][i] = chains[ledgers[l].chain][i]
               /\ files'[chains'[ledgers'[l].chain][i].file]
                      = files[chains[ledgers[l].chain][i].file]]_vars

C15_Witness ==
    /\ last_call.op = "new_transaction"
    /\ Len(last_call.chain_before) = 3
    /\ records_of(Heap, last_block(Heap, 1)) # <<>>
    /\ Len(file_of(Heap, 1)) = 1

(***************************************************************************)
(* C16 as claimed: a valid_chain() call returns, and returns True exactly  *)
(* when every consecutive pair of the chain is linked by previous_hash and *)
(* by a valid proof (whatever the first block's own proof and              *)
(* previous_hash and whatever the index of any block); it returns True on  *)
(* a chain of one block, and it leaves chain and pending unchanged.        *)
(***************************************************************************)
C16_Claimed ==
    last_call.op = "valid_chain" =>
        /\ last_call.ret.exc = ""
        /\ last_call.ret.val = Linked(Heap, last_call.chain_before)
        /\ Len(last_call.chain_before) = 1 => last_call.ret.val = TRUE
        /\ chain_of(Heap, last_call.self) = last_call.chain_before
        /\ file_of(Heap, last_call.self) = last_call.file_before

(***************************************************************************)
(* C17: every mine call whose search for a proof returns gives the result  *)
(* (True, block), never (False, 0), and the block it returns is the one    *)
(* now at the end of the chain, which is the chain before the call with    *)
(* that block appended.                                                    *)
(***************************************************************************)
C17_RecheckSucceeds ==
    (last_call.op = "mine" /\ last_call.chain_before # <<>>) =>
        /\ last_call.ret.exc = ""
        /\ last_call.ret.val[1] = TRUE
        /\ last_block(Heap, last_call.self) = last_call.ret.val[2]
        /\ chain_of(Heap, last_call.self) = Append(last_call.chain_before, last_call.ret.val[2])

C17_Witness ==
    /\ Sealed
    /\ last_call.self = 2
    /\ Len(chain_of(Heap, 2)) = 3
    /\ ~Linked(Heap, last_call.chain_before)

(***************************************************************************)
(* C18: the search of a mine call takes the candidates 0, 1, 2, ... in     *)
(* turn and ends only on a candidate that is valid after the last proof;   *)
(* a mine call that has started eventually returns with the chain one      *)
(* block longer than when it was called; and while the search runs the     *)
(* chain and pending are what they were when mine was called.              *)
(***************************************************************************)
C18_MiningTerminates ==
    /\ [][(search # None /\ search' # None) =>
              /\ search'[1].proof = search[1].proof + 1
              /\ ~valid_proof(search[1].last_proof, search[1].proof)]_vars
    /\ [][(search # None /\ search' = None) =>
              /\ valid_proof(search[1].last_proof, search[1].proof)
              /\ \A p \in 0..(search[1].proof - 1) : ~valid_proof(search[1].last_proof, p)]_vars
    /\ [](search # None =>
              /\ chain_of(Heap, search[1].self) = search[1].chain_before
              /\ file_of(Heap, search[1].self) = search[1].file_before)
    /\ \A n \in 1..MaxChain :
           (search # None /\ Len(chain_of(Heap, 1)) = n)
               ~> (search = None /\ Sealed /\ Len(chain_of(Heap, 1)) = n + 1)

C18_Witness ==
    /\ Sealed
    /\ search = None
    /\ last_call.ret.val[2].proof = 4
    /\ Len(chain_of(Heap, 1)) = Len(last_call.chain_before) + 1
    /\ Len(chain_of(Heap, 1)) = 3

(***************************************************************************)
(* C19 as claimed: a mine on one ledger leaves the chain of every other    *)
(* ledger as it was before the call, also when one of the two ledgers was  *)
(* made by fromchain from the chain list of the other.                     *)
(***************************************************************************)
C19_Claimed ==
    Sealed =>
        \A l \in DOMAIN ledgers \ {last_call.self} :
            chain_of(Heap, l) = last_call.chains_before[ledgers[l].chain]

(***************************************************************************)
(* C20: for non-negative integers a, b, c, d such that the decimal texts   *)
(* of a and b concatenate to the same string as those of c and d,          *)
(* valid_proof(a, b) = valid_proof(c, d): a proof accepted after one last  *)
(* proof is accepted for every other split of the same digits.             *)
(***************************************************************************)
C20_OnlyTheConcatenation ==
    pure.op = "valid_proof" => pure.ab = pure.cd

C20_Witness ==
    /\ pure.op = "valid_proof"
    /\ pure.a # pure.c
    /\ pure.ab = TRUE
    /\ pure.cd = TRUE

====
